---- MODULE Spec2Model ----
(***************************************************************************)
(* Model of audio_engine/src/engine.rs: the output-device lifecycle        *)
(* manager (StreamEventLoop, Backend), the device negotiation              *)
(* (create_device) and the source registration of AudioEngine (new_sound). *)
(*                                                                         *)
(* Three execution contexts are interleaved: the control context (the      *)
(* owner of AudioEngine), the supervisor thread spawned by Backend::start  *)
(* and the platform audio runtime, which invokes the error callback of     *)
(* every stream that has not been closed.                                  *)
(***************************************************************************)
EXTENDS Integers, Sequences, FiniteSets, TLC

VARIABLES
    android,      \* cfg(target_os = "android") of the build
    caps,         \* what device.supported_output_configs() yields: a set of ranges
    supPc,        \* position of the supervisor thread
    queue,        \* the mpsc channel: events sent and not yet received
    stream,       \* StreamEventLoop.stream: 0 (None) or the id of the held stream
    streams,      \* every cpal stream built so far, by id
    candidates,   \* create_device: the Vec supported_configs_range
    config,       \* create_device: the candidate popped for the current attempt
    attempted,    \* history: candidates popped in the current negotiation, in order
    negotiations, \* history: number of create_device calls
    errors,       \* history: the Err values create_device returned to run
    mixerCfg,     \* Mixer: channels and sample_rate, as given to new and set_config
    sounds,       \* Mixer: the sounds passed to add_sound, in order
    lastSound,    \* history: the last new_sound call and its result
    facadePc,     \* position of the control context in the life of AudioEngine
    dropAt,       \* history: the supervisor's state when Backend::drop sent Drop
    lock,         \* the Mutex around the Mixer: the context holding it, or "none"
    ctl,          \* the call of the control context that is in progress
    cb,           \* per stream, the position of its data callback
    lastRead      \* history: the last sample_rate() or channels() call and its result

vars == <<android, caps, supPc, queue, stream, streams, candidates, config,
          attempted, negotiations, errors, mixerCfg, sounds, lastSound, facadePc,
          dropAt, lock, ctl, cb, lastRead>>

(***************************************************************************)
(* Bounds of the model.                                                    *)
(***************************************************************************)
\* largest number of configuration ranges a device reports
MaxConfigs == 3
\* largest number of streams built in one behaviour
MaxStreams == 2
\* largest number of invocations of one stream's error callback
MaxErrors == 2
\* largest number of new_sound calls in one behaviour
MaxSounds == 1

(***************************************************************************)
(* Program constants.                                                      *)
(***************************************************************************)
Rate48000 == 48000
Rate44100 == 44100
\* the constant the sort key compares the rate with in its second slot
Rate441000 == 441000
DefaultChannels == 2
DefaultSampleRate == 48000

NoConfig == [rate |-> 0, channels |-> 0, format |-> "none"]

(***************************************************************************)
(* cpal::SupportedStreamConfigRange: the inputs of a negotiation.          *)
(***************************************************************************)
MkRange(lo, hi, ch, f) == [min |-> lo, max |-> hi, channels |-> ch, format |-> f]

\* sample-rate intervals: containing 48000, containing 44100 only, below both,
\* above both, and above both with the maximum 441000
RateIntervals ==
    { <<44100, 48000>>, <<8000, 44100>>, <<8000, 22050>>,
      <<88200, 96000>>, <<96000, 441000>> }

RangePool ==
    { MkRange(iv[1], iv[2], ch, f) : iv \in RateIntervals, ch \in {1, 2, 6}, f \in {"I16", "F32"} }

\* the devices of the lifecycle specification
LifecyclePool ==
    { MkRange(44100, 48000, 2, "F32"), MkRange(8000, 44100, 1, "I16"),
      MkRange(8000, 22050, 6, "U16") }

\* the subsets of S with at most n elements
RECURSIVE UpTo(_, _)
UpTo(S, n) ==
    IF n = 0 THEN {{}}
    ELSE LET P == UpTo(S, n - 1) IN P \cup { T \cup {x} : T \in P, x \in S }

(***************************************************************************)
(* create_device, lines 247-259: the rate each range is fixed to.          *)
(***************************************************************************)
WithSampleRate(x, r) == [rate |-> r, channels |-> x.channels, format |-> x.format]

\* a variant of ClampRate: 44100 is tested before 48000
ClampRate44100First(x) ==
    IF x.min <= Rate44100 /\ Rate44100 <= x.max THEN WithSampleRate(x, Rate44100)
    ELSE IF x.min <= Rate48000 /\ Rate48000 <= x.max THEN WithSampleRate(x, Rate48000)
    ELSE WithSampleRate(x, x.max)

ClampRate(x) ==
    IF x.min <= Rate48000 /\ Rate48000 <= x.max THEN WithSampleRate(x, Rate48000)
    ELSE IF x.min <= Rate44100 /\ Rate44100 <= x.max THEN WithSampleRate(x, Rate44100)
    ELSE WithSampleRate(x, x.max)

(***************************************************************************)
(* create_device, lines 262-274: the sort key and its comparison.          *)
(***************************************************************************)
B2N(b) == IF b THEN 1 ELSE 0

SortKey(x) ==
    << B2N(x.rate = Rate48000),
       B2N(x.rate = Rate441000),
       B2N(x.channels = 2),
       B2N(x.channels = 1),
       B2N(x.format = "I16"),
       x.rate >>

\* Ord::cmp of tuples: lexicographic
RECURSIVE LexLess(_, _)
LexLess(a, b) ==
    IF a = <<>> \/ b = <<>> THEN FALSE
    ELSE IF Head(a) # Head(b) THEN Head(a) < Head(b)
    ELSE LexLess(Tail(a), Tail(b))

KeyLessEq(a, b) == ~LexLess(SortKey(b), SortKey(a))

\* the sequences over the elements of S, each element once
Perms(S) ==
    { p \in [1..Cardinality(S) -> S] : \A i, j \in 1..Cardinality(S) : p[i] = p[j] => i = j }

\* sort_unstable_by: any arrangement of the clamped configurations that is
\* ascending in the key (the order of equal keys is not specified)
SortedConfigs(S) ==
    { [i \in 1..Cardinality(S) |-> ClampRate(p[i])] : p \in
        { q \in Perms(S) :
            \A i \in 1..Cardinality(S) - 1 : KeyLessEq(ClampRate(q[i]), ClampRate(q[i + 1])) } }

(***************************************************************************)
(* The channel and the supervisor thread.                                  *)
(***************************************************************************)
\* the Receiver lives in run's frame: it exists until run returns or unwinds
ReceiverAlive == supPc \in {"spawned", "recv", "pop", "set", "open"}

\* lines 64-68: what the supervisor does with the stream it takes on RecreateStream
ReleaseOnRecreate(a) == IF a THEN "leaked" ELSE "dropped"

\* the drop of the StreamEventLoop temporary when run has returned (line 114)
ReleaseOnExit(a) == "dropped"

\* a variant of NewStream: the clones of the closure share one flag
NewStreamSharedLatch(cfg) ==
    [cfg |-> cfg, handled |-> \E s \in 1..Len(streams) : streams[s].handled,
     state |-> "open", at |-> "none", calls |-> 0, sent |-> 0, panicked |-> FALSE]

\* a stream as build_output_stream returns it: its error callback is a clone
\* of run's closure, whose captured flag `handled` is false (lines 44-45, 298)
NewStream(cfg) ==
    [cfg |-> cfg, handled |-> FALSE, state |-> "open", at |-> "none",
     calls |-> 0, sent |-> 0, panicked |-> FALSE]

Release(ss, id, how, where) ==
    IF id = 0 THEN ss
    ELSE [ss EXCEPT ![id].state = how, ![id].at = where]

NoSound ==
    [calls |-> 0, srcRate |-> 0, srcCh |-> 0, outRate |-> 0, outCh |-> 0,
     ok |-> TRUE, chain |-> <<>>]

\* the control context between two calls
Idle == [st |-> "idle", op |-> "none", srcRate |-> 0, srcCh |-> 0]

NoRead == [op |-> "none", value |-> 0]

\* the state after AudioEngine::new (lines 160-168): the mixer holds the default
\* format, the channel is empty and the supervisor thread is spawned
InitWith(platforms, devices) ==
    /\ android \in platforms
    /\ caps \in devices
    /\ supPc = "spawned"
    /\ queue = <<>>
    /\ stream = 0
    /\ streams = <<>>
    /\ candidates = <<>>
    /\ config = NoConfig
    /\ attempted = <<>>
    /\ negotiations = 0
    /\ errors = <<>>
    /\ mixerCfg = [channels |-> DefaultChannels, sample_rate |-> DefaultSampleRate]
    /\ sounds = <<>>
    /\ lastSound = NoSound
    /\ facadePc = "alive"
    /\ dropAt = "none"
    /\ lock = "none"
    /\ ctl = Idle
    /\ cb = [s \in 1..MaxStreams |-> "idle"]
    /\ lastRead = NoRead

Init == InitWith(BOOLEAN, UpTo(LifecyclePool, MaxConfigs))

\* a variant of RunStart: run enters its loop without the self-issued event
RunStartWithoutSend ==
    /\ supPc = "spawned"
    /\ supPc' = "recv"
    /\ UNCHANGED <<android, caps, queue, stream, streams, candidates, config, attempted,
                   negotiations, errors, mixerCfg, sounds, lastSound, facadePc, dropAt,
                   lock, ctl, cb, lastRead>>

\* run, line 42: the self-issued first event
RunStart ==
    /\ supPc = "spawned"
    /\ queue' = Append(queue, "RecreateStream")
    /\ supPc' = "recv"
    /\ UNCHANGED <<android, caps, stream, streams, candidates, config, attempted,
                   negotiations, errors, mixerCfg, sounds, lastSound, facadePc, dropAt,
                   lock, ctl, cb, lastRead>>

\* a variant of CreateDeviceFailed: the error is logged and the loop goes on
CreateDeviceFailedContinues(x) ==
    /\ errors' = Append(errors, x)
    /\ supPc' = "recv"

\* create_device returned Err(x): run logs it and returns (lines 73-76)
CreateDeviceFailed(x) ==
    /\ errors' = Append(errors, x)
    /\ supPc' = "returned"

\* a variant of HandleRecreate: the stream held is kept during the negotiation
HandleRecreateKeepsStream ==
    /\ supPc = "recv"
    /\ queue # <<>>
    /\ Head(queue) = "RecreateStream"
    /\ queue' = Tail(queue)
    /\ UNCHANGED <<stream, streams>>
    /\ negotiations' = negotiations + 1
    /\ attempted' = <<>>
    /\ config' = NoConfig
    /\ \/ /\ CreateDeviceFailed("no output device available")
          /\ candidates' = <<>>
       \/ /\ CreateDeviceFailed("error while querying formats")
          /\ candidates' = <<>>
       \/ /\ candidates' \in SortedConfigs(caps)
          /\ supPc' = "pop"
          /\ UNCHANGED errors
    /\ UNCHANGED <<android, caps, mixerCfg, sounds, lastSound, facadePc, dropAt,
                   lock, ctl, cb, lastRead>>

\* run, lines 58-70, and create_device, lines 240-274: the stream is taken
\* and released, the device is queried and the candidates are sorted
HandleRecreate ==
    /\ supPc = "recv"
    /\ queue # <<>>
    /\ Head(queue) = "RecreateStream"
    /\ queue' = Tail(queue)
    /\ streams' = Release(streams, stream, ReleaseOnRecreate(android), "recreate")
    /\ stream' = 0
    /\ negotiations' = negotiations + 1
    /\ attempted' = <<>>
    /\ config' = NoConfig
    /\ \/ /\ CreateDeviceFailed("no output device available")
          /\ candidates' = <<>>
       \/ /\ CreateDeviceFailed("error while querying formats")
          /\ candidates' = <<>>
       \/ /\ candidates' \in SortedConfigs(caps)
          /\ supPc' = "pop"
          /\ UNCHANGED errors
    /\ UNCHANGED <<android, caps, mixerCfg, sounds, lastSound, facadePc, dropAt,
                   lock, ctl, cb, lastRead>>

\* Mixer::set_config as called at line 293: the mixer's format afterwards
SetConfig(m, c) == [channels |-> c.channels, sample_rate |-> c.rate]

\* a variant of PopCandidate: the attempt is made without the set_config call
PopCandidateWithoutSetConfig ==
    /\ supPc = "pop"
    /\ IF candidates = <<>>
       THEN /\ CreateDeviceFailed("no supported config")
            /\ UNCHANGED <<candidates, config, attempted, mixerCfg>>
       ELSE /\ config' = candidates[Len(candidates)]
            /\ candidates' = SubSeq(candidates, 1, Len(candidates) - 1)
            /\ attempted' = Append(attempted, config')
            /\ supPc' = "open"
            /\ UNCHANGED <<errors, mixerCfg>>
    /\ UNCHANGED <<android, caps, queue, stream, streams, negotiations, sounds,
                   lastSound, facadePc, dropAt,
                   lock, ctl, cb, lastRead>>

\* a variant of PopCandidate: the candidate is taken from the front of the Vec
PopCandidateFromFront ==
    /\ supPc = "pop"
    /\ IF candidates = <<>>
       THEN /\ CreateDeviceFailed("no supported config")
            /\ UNCHANGED <<candidates, config, attempted, mixerCfg>>
       ELSE /\ config' = Head(candidates)
            /\ candidates' = Tail(candidates)
            /\ attempted' = Append(attempted, config')
            /\ mixerCfg' = SetConfig(mixerCfg, config')
            /\ supPc' = "open"
            /\ UNCHANGED errors
    /\ UNCHANGED <<android, caps, queue, stream, streams, negotiations, sounds,
                   lastSound, facadePc, dropAt,
                   lock, ctl, cb, lastRead>>

\* create_device, lines 283-293: pop the most preferred candidate left and
\* set the mixer's format to it; with no candidate left, Err
PopCandidate ==
    /\ supPc = "pop"
    /\ IF candidates = <<>>
       THEN /\ CreateDeviceFailed("no supported config")
            /\ UNCHANGED <<candidates, config, attempted, mixerCfg>>
       ELSE /\ config' = candidates[Len(candidates)]
            /\ candidates' = SubSeq(candidates, 1, Len(candidates) - 1)
            /\ attempted' = Append(attempted, config')
            /\ mixerCfg' = SetConfig(mixerCfg, config')
            /\ supPc' = "open"
            /\ UNCHANGED errors
    /\ UNCHANGED <<android, caps, queue, stream, streams, negotiations, sounds,
                   lastSound, facadePc, dropAt,
                   lock, ctl, cb, lastRead>>

\* a variant of OpenFails: a failed attempt puts the start format back
OpenFailsRestoresFormat ==
    /\ supPc = "open"
    /\ supPc' = "pop"
    /\ config' = NoConfig
    /\ mixerCfg' = [channels |-> DefaultChannels, sample_rate |-> DefaultSampleRate]
    /\ UNCHANGED <<android, caps, queue, stream, streams, candidates, attempted,
                   negotiations, errors, sounds, lastSound, facadePc, dropAt,
                   lock, ctl, cb, lastRead>>

\* create_device, lines 295-313: build_output_stream fails, the loop continues
OpenFails ==
    /\ supPc = "open"
    /\ supPc' = "pop"
    /\ config' = NoConfig
    /\ UNCHANGED <<android, caps, queue, stream, streams, candidates, attempted,
                   negotiations, errors, mixerCfg, sounds, lastSound, facadePc, dropAt,
                   lock, ctl, cb, lastRead>>

\* create_device, lines 295-319, and run, line 78: the stream is built with a
\* clone of the error callback, played and installed
OpenSucceeds ==
    /\ supPc = "open"
    /\ Len(streams) < MaxStreams
    /\ streams' = Append(streams, NewStream(config))
    /\ stream' = Len(streams) + 1
    /\ supPc' = "recv"
    /\ config' = NoConfig
    /\ candidates' = <<>>
    /\ UNCHANGED <<android, caps, queue, attempted, negotiations, errors, mixerCfg,
                   sounds, lastSound, facadePc, dropAt,
                   lock, ctl, cb, lastRead>>

\* create_device, line 315: play() fails, unwrap panics; the unwinding drops
\* the new stream and the receiver
PlayPanics ==
    /\ supPc = "open"
    /\ Len(streams) < MaxStreams
    /\ streams' = Append(streams,
                    [NewStream(config) EXCEPT !.state = "dropped", !.at = "unwind"])
    /\ supPc' = "panicked"
    /\ config' = NoConfig
    /\ candidates' = <<>>
    /\ UNCHANGED <<android, caps, queue, stream, attempted, negotiations, errors,
                   mixerCfg, sounds, lastSound, facadePc, dropAt,
                   lock, ctl, cb, lastRead>>

\* a variant of HandleDrop: a Drop event is taken wherever it is in the queue
HandleDropOutOfOrder ==
    /\ supPc = "recv"
    /\ \E i \in 1..Len(queue) :
            /\ queue[i] = "Drop"
            /\ queue' = SubSeq(queue, 1, i - 1) \o SubSeq(queue, i + 1, Len(queue))
    /\ supPc' = "returned"
    /\ UNCHANGED <<android, caps, stream, streams, candidates, config, attempted,
                   negotiations, errors, mixerCfg, sounds, lastSound, facadePc, dropAt,
                   lock, ctl, cb, lastRead>>

\* run, line 80: the Drop event; run returns and its receiver is dropped
HandleDrop ==
    /\ supPc = "recv"
    /\ queue # <<>>
    /\ Head(queue) = "Drop"
    /\ queue' = Tail(queue)
    /\ supPc' = "returned"
    /\ UNCHANGED <<android, caps, stream, streams, candidates, config, attempted,
                   negotiations, errors, mixerCfg, sounds, lastSound, facadePc, dropAt,
                   lock, ctl, cb, lastRead>>

\* a variant of ThreadExit: the end of the thread puts the start format back
ThreadExitRestoresFormat ==
    /\ supPc = "returned"
    /\ streams' = Release(streams, stream, ReleaseOnExit(android), "shutdown")
    /\ stream' = 0
    /\ supPc' = "exited"
    /\ mixerCfg' = [channels |-> DefaultChannels, sample_rate |-> DefaultSampleRate]
    /\ UNCHANGED <<android, caps, queue, candidates, config, attempted, negotiations,
                   errors, sounds, lastSound, facadePc, dropAt,
                   lock, ctl, cb, lastRead>>

\* the thread closure, line 114: after run has returned the StreamEventLoop
\* temporary is dropped, and with it the stream it holds
ThreadExit ==
    /\ supPc = "returned"
    /\ streams' = Release(streams, stream, ReleaseOnExit(android), "shutdown")
    /\ stream' = 0
    /\ supPc' = "exited"
    /\ UNCHANGED <<android, caps, queue, candidates, config, attempted, negotiations,
                   errors, mixerCfg, sounds, lastSound, facadePc, dropAt,
                   lock, ctl, cb, lastRead>>

(***************************************************************************)
(* The platform audio runtime: the error callback of a stream.             *)
(***************************************************************************)
\* a variant of CallbackSends: the flag is not consulted
CallbackSendsAlways(handled) == TRUE

\* line 47: the callback sends only while its captured flag is unset
CallbackSends(handled) == ~handled

\* lines 45-54: one invocation of the error callback bound to stream s. A
\* stream that the supervisor leaked is never closed and still reports.
ErrorCallback(s) ==
    /\ streams[s].state \in {"open", "leaked"}
    /\ streams[s].calls < MaxErrors
    /\ IF CallbackSends(streams[s].handled)
       THEN IF ReceiverAlive
            THEN /\ queue' = Append(queue, "RecreateStream")
                 /\ streams' = [streams EXCEPT ![s].handled = TRUE,
                                               ![s].calls = @ + 1,
                                               ![s].sent = @ + 1]
            ELSE \* send returns Err, unwrap panics in the audio thread
                 /\ streams' = [streams EXCEPT ![s].handled = TRUE,
                                               ![s].calls = @ + 1,
                                               ![s].panicked = TRUE]
                 /\ UNCHANGED queue
       ELSE /\ streams' = [streams EXCEPT ![s].calls = @ + 1]
            /\ UNCHANGED queue
    /\ UNCHANGED <<android, caps, supPc, stream, candidates, config, attempted,
                   negotiations, errors, mixerCfg, sounds, lastSound, facadePc, dropAt,
                   lock, ctl, cb, lastRead>>

(***************************************************************************)
(* The control context: AudioEngine::new_sound and the drop of Backend.    *)
(***************************************************************************)
\* the state names of the supervisor's state machine
SupState ==
    IF supPc \in {"returned", "exited", "panicked"} THEN "Stopped"
    ELSE IF supPc \in {"pop", "set", "open"} THEN "Recreating"
    ELSE IF stream # 0 THEN "Running"
    ELSE "NoStream"

Adapter(kind, to) == [kind |-> kind, to |-> to]

\* a variant of WrapSource: with both rate and channels different the
\* sample-rate adapter is put outermost
WrapSourceRateOutermost(srcRate, srcCh, outRate, outCh) ==
    IF srcRate # outRate
    THEN IF srcCh = outCh
         THEN [ok |-> TRUE, chain |-> <<Adapter("SampleRateConverter", outRate)>>]
         ELSE IF outCh = 1 \/ srcCh = 1
         THEN [ok |-> TRUE, chain |-> <<Adapter("SampleRateConverter", outRate),
                                        Adapter("ChannelConverter", outCh)>>]
         ELSE [ok |-> FALSE, chain |-> <<>>]
    ELSE IF srcCh = outCh
    THEN [ok |-> TRUE, chain |-> <<>>]
    ELSE IF outCh = 1 \/ srcCh = 1
    THEN [ok |-> TRUE, chain |-> <<Adapter("ChannelConverter", outCh)>>]
    ELSE [ok |-> FALSE, chain |-> <<>>]

\* a variant of WrapSource: with different rates the channel counts are
\* converted without the test that one side is mono
WrapSourceNoMonoTest(srcRate, srcCh, outRate, outCh) ==
    IF srcRate # outRate
    THEN IF srcCh = outCh
         THEN [ok |-> TRUE, chain |-> <<Adapter("SampleRateConverter", outRate)>>]
         ELSE [ok |-> TRUE, chain |-> <<Adapter("ChannelConverter", outCh),
                                        Adapter("SampleRateConverter", outRate)>>]
    ELSE IF srcCh = outCh
    THEN [ok |-> TRUE, chain |-> <<>>]
    ELSE IF outCh = 1 \/ srcCh = 1
    THEN [ok |-> TRUE, chain |-> <<Adapter("ChannelConverter", outCh)>>]
    ELSE [ok |-> FALSE, chain |-> <<>>]

\* new_sound, lines 202-219: the adapters the source is wrapped in, outermost
\* first, or the error
WrapSource(srcRate, srcCh, outRate, outCh) ==
    IF srcRate # outRate
    THEN IF srcCh = outCh
         THEN [ok |-> TRUE, chain |-> <<Adapter("SampleRateConverter", outRate)>>]
         ELSE IF outCh = 1 \/ srcCh = 1
         THEN [ok |-> TRUE, chain |-> <<Adapter("ChannelConverter", outCh),
                                        Adapter("SampleRateConverter", outRate)>>]
         ELSE [ok |-> FALSE, chain |-> <<>>]
    ELSE IF srcCh = outCh
    THEN [ok |-> TRUE, chain |-> <<>>]
    ELSE IF outCh = 1 \/ srcCh = 1
    THEN [ok |-> TRUE, chain |-> <<Adapter("ChannelConverter", outCh)>>]
    ELSE [ok |-> FALSE, chain |-> <<>>]

\* the formats of the sources registered in the model
SourceRates == {22050, 44100, 48000}
SourceChannels == {1, 2, 6}

\* new_sound, lines 200-227
NewSound(srcRate, srcCh) ==
    /\ facadePc = "alive"
    /\ lastSound.calls < MaxSounds
    /\ LET r == WrapSource(srcRate, srcCh, mixerCfg.sample_rate, mixerCfg.channels)
       IN /\ lastSound' = [calls |-> lastSound.calls + 1,
                           srcRate |-> srcRate, srcCh |-> srcCh,
                           outRate |-> mixerCfg.sample_rate, outCh |-> mixerCfg.channels,
                           ok |-> r.ok, chain |-> r.chain]
          /\ sounds' = IF r.ok
                       THEN Append(sounds, [rate |-> srcRate, channels |-> srcCh,
                                            chain |-> r.chain])
                       ELSE sounds
    /\ UNCHANGED <<android, caps, supPc, queue, stream, streams, candidates, config,
                   attempted, negotiations, errors, mixerCfg, facadePc, dropAt,
                   lock, ctl, cb, lastRead>>

\* Backend::drop, line 131: send(Drop).unwrap()
DropSend ==
    /\ facadePc = "alive"
    /\ ctl.st = "idle"
    /\ dropAt' = SupState
    /\ IF ReceiverAlive
       THEN /\ queue' = Append(queue, "Drop")
            /\ facadePc' = "joining"
       ELSE \* send returns Err, unwrap panics
            /\ facadePc' = "panicked_send"
            /\ UNCHANGED queue
    /\ UNCHANGED <<android, caps, supPc, stream, streams, candidates, config,
                   attempted, negotiations, errors, mixerCfg, sounds, lastSound,
                   lock, ctl, cb, lastRead>>

\* Backend::drop, line 132: join().unwrap()
DropJoin ==
    /\ facadePc = "joining"
    /\ supPc \in {"exited", "panicked"}
    /\ facadePc' = IF supPc = "exited" THEN "dropped" ELSE "panicked_join"
    /\ UNCHANGED <<android, caps, supPc, queue, stream, streams, candidates, config,
                   attempted, negotiations, errors, mixerCfg, sounds, lastSound, dropAt,
                   lock, ctl, cb, lastRead>>

(***************************************************************************)
(* The same operations with the Mutex around the Mixer made explicit: a    *)
(* context waits until the lock is free, holds it for one call on the      *)
(* Mixer and releases it when the guard goes out of scope.                 *)
(***************************************************************************)
\* create_device, lines 283-292: pop a candidate, then mixer.lock()
LockForSetConfig ==
    /\ supPc = "pop"
    /\ candidates # <<>>
    /\ lock = "none"
    /\ config' = candidates[Len(candidates)]
    /\ candidates' = SubSeq(candidates, 1, Len(candidates) - 1)
    /\ attempted' = Append(attempted, config')
    /\ lock' = "supervisor"
    /\ supPc' = "set"
    /\ UNCHANGED <<android, caps, queue, stream, streams, negotiations, errors,
                   mixerCfg, sounds, lastSound, facadePc, dropAt, ctl, cb, lastRead>>

\* a variant of SetConfigUnlock: the guard is bound to a variable and lives on
SetConfigKeepsGuard ==
    /\ supPc = "set"
    /\ lock = "supervisor"
    /\ mixerCfg' = SetConfig(mixerCfg, config)
    /\ supPc' = "open"
    /\ UNCHANGED <<android, caps, queue, stream, streams, candidates, config,
                   attempted, negotiations, errors, sounds, lastSound, facadePc,
                   dropAt, lock, ctl, cb, lastRead>>

\* create_device, line 293: set_config, and the guard is dropped
SetConfigUnlock ==
    /\ supPc = "set"
    /\ lock = "supervisor"
    /\ mixerCfg' = SetConfig(mixerCfg, config)
    /\ lock' = "none"
    /\ supPc' = "open"
    /\ UNCHANGED <<android, caps, queue, stream, streams, candidates, config,
                   attempted, negotiations, errors, sounds, lastSound, facadePc,
                   dropAt, ctl, cb, lastRead>>

\* create_device, lines 283-287: no candidate is left
Exhausted ==
    /\ candidates = <<>>
    /\ PopCandidate

\* a call of sample_rate, channels or new_sound begins (lines 172-200)
CtlCall(op, srcRate, srcCh) ==
    /\ facadePc = "alive"
    /\ ctl.st = "idle"
    /\ op = "new_sound" => lastSound.calls < MaxSounds
    /\ ctl' = [st |-> "waiting", op |-> op, srcRate |-> srcRate, srcCh |-> srcCh]
    /\ UNCHANGED <<android, caps, supPc, queue, stream, streams, candidates, config,
                   attempted, negotiations, errors, mixerCfg, sounds, lastSound,
                   facadePc, dropAt, lock, cb, lastRead>>

\* self.mixer.lock() returns (lines 173, 181, 200)
CtlLock ==
    /\ ctl.st = "waiting"
    /\ lock = "none"
    /\ lock' = "control"
    /\ ctl' = [ctl EXCEPT !.st = "holding"]
    /\ UNCHANGED <<android, caps, supPc, queue, stream, streams, candidates, config,
                   attempted, negotiations, errors, mixerCfg, sounds, lastSound,
                   facadePc, dropAt, cb, lastRead>>

\* a variant of CtlReturn: after a failed negotiation the reads report no format
CtlReturnSurfacesFailure ==
    /\ ctl.st = "holding"
    /\ lock = "control"
    /\ lock' = "none"
    /\ ctl' = Idle
    /\ IF ctl.op = "new_sound"
       THEN LET r == WrapSource(ctl.srcRate, ctl.srcCh, mixerCfg.sample_rate, mixerCfg.channels)
            IN /\ lastSound' = [calls |-> lastSound.calls + 1,
                                srcRate |-> ctl.srcRate, srcCh |-> ctl.srcCh,
                                outRate |-> mixerCfg.sample_rate,
                                outCh |-> mixerCfg.channels,
                                ok |-> r.ok, chain |-> r.chain]
               /\ sounds' = IF r.ok
                            THEN Append(sounds, [rate |-> ctl.srcRate, channels |-> ctl.srcCh,
                                                 chain |-> r.chain])
                            ELSE sounds
               /\ UNCHANGED lastRead
       ELSE /\ lastRead' = [op |-> ctl.op,
                            value |-> IF errors # <<>> THEN 0
                                      ELSE IF ctl.op = "sample_rate" THEN mixerCfg.sample_rate
                                      ELSE mixerCfg.channels]
            /\ UNCHANGED <<sounds, lastSound>>
    /\ UNCHANGED <<android, caps, supPc, queue, stream, streams, candidates, config,
                   attempted, negotiations, errors, mixerCfg, facadePc, dropAt, cb>>

\* the body of the call under the lock, and the release of the guard
\* (lines 173, 181, 202-222)
CtlReturn ==
    /\ ctl.st = "holding"
    /\ lock = "control"
    /\ lock' = "none"
    /\ ctl' = Idle
    /\ IF ctl.op = "new_sound"
       THEN LET r == WrapSource(ctl.srcRate, ctl.srcCh, mixerCfg.sample_rate, mixerCfg.channels)
            IN /\ lastSound' = [calls |-> lastSound.calls + 1,
                                srcRate |-> ctl.srcRate, srcCh |-> ctl.srcCh,
                                outRate |-> mixerCfg.sample_rate,
                                outCh |-> mixerCfg.channels,
                                ok |-> r.ok, chain |-> r.chain]
               /\ sounds' = IF r.ok
                            THEN Append(sounds, [rate |-> ctl.srcRate, channels |-> ctl.srcCh,
                                                 chain |-> r.chain])
                            ELSE sounds
               /\ UNCHANGED lastRead
       ELSE /\ lastRead' = [op |-> ctl.op,
                            value |-> IF ctl.op = "sample_rate" THEN mixerCfg.sample_rate
                                      ELSE mixerCfg.channels]
            /\ UNCHANGED <<sounds, lastSound>>
    /\ UNCHANGED <<android, caps, supPc, queue, stream, streams, candidates, config,
                   attempted, negotiations, errors, mixerCfg, facadePc, dropAt, cb>>

\* the platform asks stream s for samples: the data callback begins (line 336)
CbStart(s) ==
    /\ streams[s].state \in {"open", "leaked"}
    /\ cb[s] = "idle"
    /\ cb' = [cb EXCEPT ![s] = "waiting"]
    /\ UNCHANGED <<android, caps, supPc, queue, stream, streams, candidates, config,
                   attempted, negotiations, errors, mixerCfg, sounds, lastSound,
                   facadePc, dropAt, lock, ctl, lastRead>>

\* mixer.lock() returns in the data callback (line 339)
CbLock(s) ==
    /\ cb[s] = "waiting"
    /\ lock = "none"
    /\ lock' = "callback"
    /\ cb' = [cb EXCEPT ![s] = "holding"]
    /\ UNCHANGED <<android, caps, supPc, queue, stream, streams, candidates, config,
                   attempted, negotiations, errors, mixerCfg, sounds, lastSound,
                   facadePc, dropAt, ctl, lastRead>>

\* write_samples returns and the guard is dropped (lines 339-344)
CbReturn(s) ==
    /\ cb[s] = "holding"
    /\ lock = "callback"
    /\ lock' = "none"
    /\ cb' = [cb EXCEPT ![s] = "idle"]
    /\ UNCHANGED <<android, caps, supPc, queue, stream, streams, candidates, config,
                   attempted, negotiations, errors, mixerCfg, sounds, lastSound,
                   facadePc, dropAt, ctl, lastRead>>

Supervisor ==
    \/ RunStart
    \/ HandleRecreate
    \/ PopCandidate
    \/ OpenFails
    \/ OpenSucceeds
    \/ PlayPanics
    \/ HandleDrop
    \/ ThreadExit

\* the lifecycle: the supervisor, the error callbacks and the drop of the engine
Next ==
    \/ Supervisor
    \/ \E s \in 1..Len(streams) : ErrorCallback(s)
    \/ DropSend
    \/ DropJoin

Spec == Init /\ [][Next]_vars

\* one negotiation over the devices of RangePool
InitNeg == InitWith({FALSE}, UpTo(RangePool, MaxConfigs))

NextNeg ==
    \/ RunStart
    \/ HandleRecreate
    \/ PopCandidate
    \/ OpenFails
    \/ OpenSucceeds
    \/ PlayPanics
    \/ ThreadExit

SpecNeg == InitNeg /\ [][NextNeg]_vars

\* source registration while the supervisor negotiates
NextSound ==
    \/ NextNeg
    \/ \E r \in SourceRates, c \in SourceChannels : NewSound(r, c)

SpecSound == Init /\ [][NextSound]_vars

\* the lifecycle with a supervisor thread that is scheduled: whenever it can
\* take a step it eventually takes one (recv returns when the queue is not
\* empty, every open attempt returns)
SpecFair == Spec /\ WF_vars(Supervisor)

\* one negotiation over devices whose ranges lie in every position relative
\* to 44100 and 48000: below, between, above, containing one or both, and
\* with either rate at an end of the range
ClampIntervals ==
    { <<8000, 22050>>, <<8000, 44100>>, <<8000, 46000>>, <<44100, 48000>>,
      <<22050, 96000>>, <<48000, 96000>>, <<46000, 96000>>, <<44101, 47999>>,
      <<88200, 96000>> }

ClampPool == { MkRange(i[1], i[2], ch, "I16") : i \in ClampIntervals, ch \in {1, 2} }

InitClamp == InitWith({FALSE}, UpTo(ClampPool, MaxConfigs))

SpecClamp == InitClamp /\ [][NextNeg]_vars

\* the three contexts with the lock explicit: one negotiation, the calls of
\* the control context, the data callbacks and the drop of the engine
ControlOps ==
    { <<"sample_rate", 0, 0>>, <<"channels", 0, 0>> }
        \cup { <<"new_sound", r, c>> : r \in SourceRates, c \in SourceChannels }

SupervisorLocked ==
    \/ RunStart
    \/ HandleRecreate
    \/ Exhausted
    \/ SetConfigUnlock
    \/ OpenFails
    \/ OpenSucceeds
    \/ PlayPanics
    \/ HandleDrop
    \/ ThreadExit

NextLock ==
    \/ SupervisorLocked
    \/ LockForSetConfig
    \/ \E o \in ControlOps : CtlCall(o[1], o[2], o[3])
    \/ CtlLock
    \/ CtlReturn
    \/ \E s \in 1..Len(streams) : CbStart(s)
    \/ \E s \in 1..Len(streams) : CbLock(s)
    \/ \E s \in 1..Len(streams) : CbReturn(s)
    \/ DropSend
    \/ DropJoin

SpecLock == Init /\ [][NextLock]_vars

\* a thread that can take a step takes it; a thread blocked in lock() gets
\* the Mutex if it is free again and again
FairLock ==
    /\ WF_vars(SupervisorLocked)
    /\ SF_vars(LockForSetConfig)
    /\ SF_vars(CtlLock)
    /\ WF_vars(CtlReturn)
    /\ WF_vars(DropJoin)
    /\ \A s \in 1..MaxStreams : SF_vars(CbLock(s)) /\ WF_vars(CbReturn(s))

\* the three contexts contending for the lock over several negotiations: the
\* streams report errors, so that a negotiation can run while the callback
\* of a leaked stream and a call of the control context want the lock
ContendOps == { <<"sample_rate", 0, 0>>, <<"channels", 0, 0>>, <<"new_sound", 44100, 2>> }

LockDevices == { {MkRange(8000, 22050, 6, "U16")} }

InitLock == InitWith(BOOLEAN, LockDevices)

NextContend ==
    \/ SupervisorLocked
    \/ LockForSetConfig
    \/ \E o \in ContendOps : CtlCall(o[1], o[2], o[3])
    \/ CtlLock
    \/ CtlReturn
    \/ \E s \in 1..Len(streams) : CbStart(s)
    \/ \E s \in 1..Len(streams) : CbLock(s)
    \/ \E s \in 1..Len(streams) : CbReturn(s)
    \/ \E s \in 1..Len(streams) : ErrorCallback(s)
    \/ DropSend
    \/ DropJoin

SpecLockFair == InitLock /\ [][NextContend]_vars /\ FairLock

(***************************************************************************)
(* Definitions used by the properties.                                     *)
(***************************************************************************)
StreamIds == 1..Len(streams)

Reverse(q) == [i \in 1..Len(q) |-> q[Len(q) + 1 - i]]

\* the order of the open attempts of the current negotiation: those made,
\* then those the loop would still make (it pops from the end)
Planned == attempted \o Reverse(candidates)

\* q holds the clamped configuration of every range of S, each once
IsArrangementOf(q, S) ==
    /\ Len(q) = Cardinality(S)
    /\ \E p \in Perms(S) : \A i \in 1..Len(q) : q[i] = ClampRate(p[i])

\* the key of section 4.1 of the specification
DocumentedKey(x) ==
    << B2N(x.rate = 48000),
       B2N(x.rate = 44100),
       B2N(x.channels = 2),
       B2N(x.channels = 1),
       B2N(x.format = "I16"),
       x.rate >>

(***************************************************************************)
(* C1: destroying the Engine (send Drop, then join) completes normally     *)
(* from every supervisor state: the send does not fail fatally and the     *)
(* join returns normally. Stated as: the control context never panics in   *)
(* Backend::drop.                                                          *)
(***************************************************************************)
C1_DropCompletesNormally ==
    /\ dropAt \in {"NoStream", "Recreating", "Running", "Stopped"}
            => facadePc \in {"joining", "dropped"}
    /\ facadePc = "joining" /\ ~ENABLED Supervisor => supPc = "exited"

(***************************************************************************)
(* C2: the error handler of a stream that is invoked at least once has     *)
(* enqueued exactly one RecreateStream event, however often it is invoked. *)
(***************************************************************************)
C2_ExactlyOneRecreate ==
    \A s \in StreamIds : streams[s].calls >= 1 => streams[s].sent = 1

(***************************************************************************)
(* C2, amended: a handler enqueues at most one RecreateStream event. Its   *)
(* first invocation enqueues the event when the supervisor's receiver      *)
(* still exists, and otherwise fails to send and enqueues nothing; every   *)
(* later invocation enqueues nothing.                                      *)
(***************************************************************************)
C2_AtMostOneRecreate ==
    \A s \in StreamIds :
        /\ streams[s].sent <= 1
        /\ streams[s].calls >= 1 => (streams[s].sent = 1) # streams[s].panicked
        /\ streams[s].calls = 0 => streams[s].sent = 0 /\ ~streams[s].panicked

C2_Witness_DuplicateAbsorbed ==
    \E s \in StreamIds :
        /\ streams[s].calls >= 2
        /\ streams[s].sent = 1
        /\ streams[s].state = "leaked"

(***************************************************************************)
(* C3: when no candidate can be opened the negotiation ends after          *)
(* attempting each candidate exactly once, create_device reports the       *)
(* single failure "no supported config", and the supervisor is stopped for *)
(* good: it holds no stream and no further negotiation is started.         *)
(***************************************************************************)
C3_ExhaustionStops ==
    (errors # <<>> /\ errors[1] = "no supported config") =>
        /\ errors = <<"no supported config">>
        /\ IsArrangementOf(attempted, caps)
        /\ candidates = <<>>
        /\ stream = 0
        /\ supPc \in {"returned", "exited"}
        /\ ~ENABLED HandleRecreate

C3_Witness_AllFailed ==
    /\ errors = <<"no supported config">>
    /\ Len(attempted) >= 2
    /\ supPc = "exited"

(***************************************************************************)
(* C4: new_sound follows the decision table for every combination of       *)
(* rates and channel counts that it accepts, and on success adds the       *)
(* wrapped source to the mixer once.                                       *)
(***************************************************************************)
C4_Table(call) ==
    LET rateEq == call.srcRate = call.outRate
        chEq   == call.srcCh = call.outCh
        mono   == call.srcCh = 1 \/ call.outCh = 1
        chAd   == Adapter("ChannelConverter", call.outCh)
        rateAd == Adapter("SampleRateConverter", call.outRate)
    IN /\ rateEq /\ chEq => call.ok /\ call.chain = <<>>
       /\ rateEq /\ ~chEq /\ mono => call.ok /\ call.chain = <<chAd>>
       /\ ~rateEq /\ chEq => call.ok /\ call.chain = <<rateAd>>
       /\ ~rateEq /\ ~chEq /\ mono => call.ok /\ call.chain = <<chAd, rateAd>>

C4_DecisionTable ==
    [][ lastSound'.calls # lastSound.calls =>
          /\ lastSound'.outRate = mixerCfg.sample_rate
          /\ lastSound'.outCh = mixerCfg.channels
          /\ C4_Table(lastSound')
          /\ lastSound'.ok =>
                sounds' = Append(sounds, [rate |-> lastSound'.srcRate,
                                          channels |-> lastSound'.srcCh,
                                          chain |-> lastSound'.chain]) ]_vars

C4_Witness_BothAdapters ==
    /\ lastSound.calls >= 1
    /\ lastSound.ok
    /\ Len(lastSound.chain) = 2
    /\ Len(sounds) >= 1

(***************************************************************************)
(* C5: new_sound fails whenever the channel counts differ and neither is   *)
(* 1, with equal or different rates, and the failed call leaves the        *)
(* mixer's sounds and format as they were.                                 *)
(***************************************************************************)
C5_ChannelMismatch ==
    [][ ( /\ lastSound'.calls # lastSound.calls
          /\ lastSound'.srcCh # mixerCfg.channels
          /\ lastSound'.srcCh # 1
          /\ mixerCfg.channels # 1 ) =>
          /\ ~lastSound'.ok
          /\ sounds' = sounds
          /\ mixerCfg' = mixerCfg ]_vars

C5_Witness_MismatchAtOtherRate ==
    /\ lastSound.calls >= 1
    /\ ~lastSound.ok
    /\ lastSound.srcRate # lastSound.outRate
    /\ lastSound.srcCh = 6
    /\ lastSound.outCh = 2

(***************************************************************************)
(* C6: a candidate at 48000 Hz is attempted before every candidate at      *)
(* another rate, and of two candidates of the same rate class (48000 or    *)
(* not) a 2-channel one is attempted before a 1-channel one.               *)
(***************************************************************************)
C6_Prefer48000ThenStereo ==
    \A i, j \in 1..Len(Planned) :
        i < j =>
            /\ ~(Planned[j].rate = 48000 /\ Planned[i].rate # 48000)
            /\ (Planned[i].rate = 48000) = (Planned[j].rate = 48000)
                  => ~(Planned[j].channels = 2 /\ Planned[i].channels = 1)

(***************************************************************************)
(* C7: candidates are attempted in decreasing order of the documented key  *)
(* (48000, 44100, 2 channels, 1 channel, I16, rate): a candidate at 44100  *)
(* Hz comes before any candidate at a rate other than 48000 and 44100.     *)
(***************************************************************************)
C7_DocumentedKeyOrder ==
    \A i, j \in 1..Len(Planned) :
        i < j => ~LexLess(DocumentedKey(Planned[i]), DocumentedKey(Planned[j]))

(***************************************************************************)
(* C8: while the supervisor holds a stream, the mixer's format is the      *)
(* configuration the stream was opened with; the format is set to the      *)
(* chosen configuration before the stream is opened.                       *)
(***************************************************************************)
C8_FormatMatchesStream ==
    /\ stream # 0 =>
          /\ streams[stream].state = "open"
          /\ mixerCfg.channels = streams[stream].cfg.channels
          /\ mixerCfg.sample_rate = streams[stream].cfg.rate
    /\ supPc = "open" =>
          /\ mixerCfg.channels = config.channels
          /\ mixerCfg.sample_rate = config.rate

C8_Witness_RunningAtNewFormat ==
    /\ stream # 0
    /\ supPc = "recv"
    /\ mixerCfg.sample_rate # DefaultSampleRate
    /\ negotiations >= 2

(***************************************************************************)
(* C9: a send that fails because the receiver has been dropped is an       *)
(* implicit shutdown signal: neither an error handler nor Backend::drop    *)
(* raises an error or aborts its context on it.                            *)
(***************************************************************************)
C9_FailedSendIsQuiet ==
    /\ facadePc # "panicked_send"
    /\ \A s \in StreamIds : ~streams[s].panicked

(***************************************************************************)
(* C10: the release policy is applied at every teardown point: on android  *)
(* the supervisor leaks the stream it gives up, on RecreateStream and on   *)
(* Drop alike, and on the other platforms it drops it at both points.      *)
(***************************************************************************)
C10_ReleasePolicyEverywhere ==
    \A s \in StreamIds :
        streams[s].at \in {"recreate", "shutdown"} =>
            streams[s].state = IF android THEN "leaked" ELSE "dropped"

(***************************************************************************)
(* C12: a negotiation attempts the candidates one at a time in preference  *)
(* order (the order of the sorted list, most preferred first), each at     *)
(* most once; a failed open adds no error and only moves on to the next    *)
(* candidate; the stream that is installed is the one of the last          *)
(* candidate attempted, so every more preferred candidate failed and no    *)
(* less preferred candidate was attempted after the success.               *)
(***************************************************************************)
C12_MostPreferredThatOpens ==
    /\ Len(attempted) <= Cardinality(caps)
    /\ \A i, j \in 1..Len(attempted) :
            /\ i < j => KeyLessEq(attempted[j], attempted[i])
            /\ attempted[i] = attempted[j] => i = j
    /\ \A i \in 1..Len(attempted) : \A k \in 1..Len(candidates) :
            /\ KeyLessEq(candidates[k], attempted[i])
            /\ candidates[k] # attempted[i]
    /\ \A i \in 1..Len(attempted) : \E x \in caps : attempted[i] = ClampRate(x)
    /\ supPc \in {"pop", "open"} => errors = <<>> /\ streams = <<>>
    /\ supPc = "open" => config = attempted[Len(attempted)]
    /\ stream # 0 =>
            /\ Len(streams) = 1
            /\ streams[stream].cfg = attempted[Len(attempted)]
            /\ candidates = <<>>
            /\ errors = <<>>
            /\ supPc = "recv"

C12_Witness_SecondChoiceOpened ==
    /\ stream # 0
    /\ Len(attempted) >= 2
    /\ LexLess(SortKey(attempted[2]), SortKey(attempted[1]))
    /\ streams[stream].state = "open"
    /\ Len(attempted) < Cardinality(caps)

(***************************************************************************)
(* C13: every stream a negotiation opens starts with its own unset latch,  *)
(* whatever the latches of the earlier streams, and the first error each   *)
(* stream reports enqueues a RecreateStream event.                         *)
(***************************************************************************)
C13_FirstErrorAlwaysEnqueues ==
    [][ /\ \A s \in 1..Len(streams') :
            s > Len(streams) => ~streams'[s].handled /\ streams'[s].calls = 0
        /\ \A s \in StreamIds :
            streams[s].calls = 0 /\ streams'[s].calls = 1
                => queue' = Append(queue, "RecreateStream") ]_vars

(***************************************************************************)
(* C13, amended: every stream a negotiation opens starts with its own      *)
(* unset latch, and the first error each stream reports enqueues a         *)
(* RecreateStream event while the supervisor's receiver exists; once run   *)
(* has returned the first error enqueues nothing.                          *)
(***************************************************************************)
C13_FreshLatchPerStream ==
    [][ /\ \A s \in 1..Len(streams') :
            s > Len(streams) => ~streams'[s].handled /\ streams'[s].calls = 0
        /\ \A s \in StreamIds :
            streams[s].calls = 0 /\ streams'[s].calls = 1
                => IF ReceiverAlive
                   THEN /\ queue' = Append(queue, "RecreateStream")
                        /\ streams'[s].sent = 1
                   ELSE queue' = queue /\ streams'[s].sent = 0 ]_vars

C13_Witness_SecondEpisodeRecovers ==
    /\ Len(streams) = 2
    /\ streams[1].sent = 1
    /\ streams[2].sent = 1
    /\ negotiations >= 3

(***************************************************************************)
(* C15: the supervisor holds at most one stream, and every stream it does  *)
(* not hold has been released (dropped or leaked); from the moment a       *)
(* RecreateStream event is handled, through all open attempts of the       *)
(* negotiation, and after a failed negotiation, it holds none.             *)
(***************************************************************************)
C15_AtMostOneHandle ==
    /\ stream \in {0} \cup StreamIds
    /\ \A s \in StreamIds : streams[s].state = "open" <=> s = stream
    /\ supPc \in {"pop", "set", "open"} => stream = 0
    /\ errors # <<>> => stream = 0
    /\ \A s \in StreamIds :
            s < Len(streams) => streams[s].state \in {"dropped", "leaked"}

C15_Witness_ReleasedBeforeReopen ==
    /\ supPc = "open"
    /\ negotiations = 2
    /\ Len(streams) = 1
    /\ streams[1].at = "recreate"
    /\ Len(attempted) >= 1

(***************************************************************************)
(* C18: before the candidates are ordered each one's sample rate is fixed  *)
(* to 48000 if its range contains 48000, else to 44100 if its range        *)
(* contains 44100, else to the maximum of its range; the rate of an open   *)
(* attempt, which is also the rate written to the mixer, lies within the   *)
(* range of the candidate.                                                 *)
(***************************************************************************)
C18_Rate(x) ==
    IF 48000 \in x.min..x.max THEN 48000
    ELSE IF 44100 \in x.min..x.max THEN 44100
    ELSE x.max

C18_From(c, x) ==
    /\ c.channels = x.channels
    /\ c.format = x.format
    /\ c.rate = C18_Rate(x)
    /\ c.rate \in x.min..x.max

C18_ClampRule ==
    /\ \A i \in 1..Len(Planned) : \E x \in caps : C18_From(Planned[i], x)
    /\ supPc \in {"pop", "open"} =>
            \A x \in caps : \E i \in 1..Len(Planned) : C18_From(Planned[i], x)
    /\ supPc = "open" =>
            /\ \E x \in caps : C18_From(config, x)
            /\ mixerCfg.sample_rate = config.rate
    /\ \A s \in StreamIds : \E x \in caps : C18_From(streams[s].cfg, x)

C18_Witness_AllThreeCases ==
    /\ supPc = "open"
    /\ Len(attempted) = 3
    /\ \E i, j, k \in 1..3 :
            /\ attempted[i].rate = 48000
            /\ attempted[j].rate = 44100
            /\ attempted[k].rate \notin {48000, 44100}
    /\ \E x \in caps : x.min < 44100 /\ 48000 < x.max

(***************************************************************************)
(* C19: the mixer's format is written exactly when a candidate is taken    *)
(* for an attempt, to that candidate's channels and rate, and by no other  *)
(* step: not when the open fails or succeeds, and not when a negotiation   *)
(* fails for want of a device or of its capabilities. So it is the start   *)
(* default until the first attempt and from then on the configuration of   *)
(* the candidate attempted last; after a negotiation in which every        *)
(* candidate failed that is the least preferred candidate.                 *)
(***************************************************************************)
C19_Format(c) == [channels |-> c.channels, sample_rate |-> c.rate]

C19_FormatFollowsAttempts ==
    /\ [](/\ attempted # <<>> => mixerCfg = C19_Format(attempted[Len(attempted)])
          /\ (negotiations <= 1 /\ attempted = <<>>)
                => mixerCfg = [channels |-> 2, sample_rate |-> 48000]
          /\ (errors = <<"no supported config">> /\ attempted # <<>>) =>
                /\ Len(attempted) = Cardinality(caps)
                /\ \A i \in 1..Len(attempted) :
                        KeyLessEq(attempted[Len(attempted)], attempted[i]))
    /\ [][ IF Len(attempted') = Len(attempted) + 1
           THEN mixerCfg' = C19_Format(attempted'[Len(attempted')])
           ELSE mixerCfg' = mixerCfg ]_vars

C19_Witness_FailedNegotiationChangedFormat ==
    /\ errors = <<"no supported config">>
    /\ negotiations >= 2
    /\ Len(attempted) >= 2
    /\ Len(streams) >= 1
    /\ mixerCfg # C19_Format(streams[Len(streams)].cfg)
    /\ mixerCfg # [channels |-> 2, sample_rate |-> 48000]

(***************************************************************************)
(* C16: events are handled in the order they were enqueued, whoever        *)
(* enqueued them: senders append, the supervisor takes the head and only   *)
(* while it waits in recv, so a Drop is handled only after every           *)
(* RecreateStream enqueued before it was handled and its negotiation       *)
(* finished; once a Drop is taken the supervisor handles nothing more; and *)
(* with a scheduled supervisor a Drop that is enqueued is eventually       *)
(* followed by the end of the supervisor thread.                           *)
(***************************************************************************)
C16_Count(q, e) == Cardinality({i \in 1..Len(q) : q[i] = e})

\* the RecreateStream events sent so far: the self-issued one and one per
\* stream whose callback sent
RECURSIVE C16_SentByStreams(_)
C16_SentByStreams(n) == IF n = 0 THEN 0 ELSE streams[n].sent + C16_SentByStreams(n - 1)

C16_Sent == (IF supPc = "spawned" THEN 0 ELSE 1) + C16_SentByStreams(Len(streams))

C16_DropTaken == supPc = "recv" /\ supPc' = "returned" /\ errors' = errors

C16_FifoAndShutdown ==
    /\ [][ /\ queue' # queue =>
                \/ queue # <<>> /\ queue' = Tail(queue) /\ supPc = "recv" /\ supPc' # "recv"
                \/ \E e \in {"RecreateStream", "Drop"} : queue' = Append(queue, e)
           /\ negotiations' # negotiations =>
                /\ negotiations' = negotiations + 1
                /\ supPc = "recv"
                /\ queue # <<>>
                /\ Head(queue) = "RecreateStream"
                /\ queue' = Tail(queue)
           /\ C16_DropTaken =>
                /\ queue # <<>>
                /\ Head(queue) = "Drop"
                /\ queue' = Tail(queue)
                /\ negotiations = C16_Sent - C16_Count(queue', "RecreateStream")
           /\ supPc \in {"returned", "exited", "panicked"} =>
                /\ supPc' \in {"returned", "exited", "panicked"}
                /\ negotiations' = negotiations
                /\ queue' = queue
                /\ attempted' = attempted ]_vars
    /\ (\E i \in 1..Len(queue) : queue[i] = "Drop") ~> (supPc \in {"exited", "panicked"})

C16_Witness_LaterEventLeftUnhandled ==
    /\ supPc = "exited"
    /\ facadePc = "dropped"
    /\ queue = <<"RecreateStream">>
    /\ negotiations >= 2
    /\ dropAt = "Recreating"

(***************************************************************************)
(* C17: an initial device acquisition is attempted for every started       *)
(* engine, whenever the engine is dropped: a supervisor that has stopped   *)
(* has handled its self-issued RecreateStream event.                       *)
(***************************************************************************)
C17_AcquisitionAlwaysAttempted ==
    SupState = "Stopped" => negotiations >= 1

(***************************************************************************)
(* C17, amended: the supervisor enqueues one RecreateStream event before   *)
(* it first waits; that event is the first one it handles, starting the    *)
(* first negotiation, unless the Drop of the engine was enqueued ahead of  *)
(* it, and then the supervisor takes the Drop, handles nothing else and    *)
(* ends without any negotiation.                                           *)
(***************************************************************************)
C17_SelfIssuedFirstUnlessDropAhead ==
    [][ /\ (supPc = "spawned" /\ supPc' # "spawned") =>
                /\ supPc' = "recv"
                /\ queue' = Append(queue, "RecreateStream")
                /\ queue \in {<<>>, <<"Drop">>}
                /\ negotiations = 0
        /\ (supPc = "recv" /\ supPc' # "recv" /\ negotiations = 0) =>
                \/ /\ queue # <<>>
                   /\ Head(queue) = "RecreateStream"
                   /\ negotiations' = 1
                   /\ supPc' \in {"pop", "returned"}
                \/ /\ queue = <<"Drop", "RecreateStream">>
                   /\ queue' = <<"RecreateStream">>
                   /\ negotiations' = 0
                   /\ supPc' = "returned"
        /\ (supPc \in {"returned", "exited"} /\ negotiations = 0) =>
                /\ negotiations' = 0
                /\ mixerCfg' = mixerCfg
                /\ streams' = <<>> ]_vars

C17_Witness_DroppedBeforeFirstAcquisition ==
    /\ supPc = "exited"
    /\ facadePc = "dropped"
    /\ negotiations = 0
    /\ queue = <<"RecreateStream">>
    /\ caps # {}

(***************************************************************************)
(* C11: the engine starts with the format 2 channels / 48000 Hz whatever   *)
(* the device is, and until set_config is first called sample_rate reads   *)
(* 48000 and channels reads 2. A failure of the device does not reach the  *)
(* control context: sample_rate, channels and new_sound can always be      *)
(* called, complete once they hold the lock, and return what the mixer's   *)
(* format determines; new_sound fails only for a channel mismatch; the     *)
(* control context panics nowhere but in the drop of the engine.           *)
(***************************************************************************)
C11_Default == [channels |-> 2, sample_rate |-> 48000]

C11_CallReturns == ctl.st = "holding" /\ ctl'.st = "idle"

C11_StartDefaultsAndSilentFailures ==
    /\ [](/\ attempted = <<>> => mixerCfg = C11_Default
          /\ dropAt = "none" => facadePc = "alive"
          /\ ctl.st = "holding" => ENABLED CtlReturn
          /\ (ctl.st = "waiting" /\ lock = "none") => ENABLED CtlLock
          /\ (facadePc = "alive" /\ ctl.st = "idle") =>
                ENABLED CtlCall("sample_rate", 0, 0) /\ ENABLED CtlCall("channels", 0, 0))
    /\ [][ /\ (C11_CallReturns /\ ctl.op = "sample_rate") =>
                /\ lastRead' = [op |-> "sample_rate", value |-> mixerCfg.sample_rate]
                /\ attempted = <<>> => lastRead'.value = 48000
           /\ (C11_CallReturns /\ ctl.op = "channels") =>
                /\ lastRead' = [op |-> "channels", value |-> mixerCfg.channels]
                /\ attempted = <<>> => lastRead'.value = 2
           /\ (C11_CallReturns /\ ctl.op = "new_sound") =>
                /\ lastSound'.calls = lastSound.calls + 1
                /\ ~lastSound'.ok =>
                        /\ ctl.srcCh # mixerCfg.channels
                        /\ ctl.srcCh # 1
                        /\ mixerCfg.channels # 1 ]_vars

C11_Witness_ReadAfterNoDevice ==
    /\ errors = <<"no output device available">>
    /\ supPc = "exited"
    /\ ctl.st = "holding"
    /\ ctl.op = "channels"
    /\ lastRead = [op |-> "sample_rate", value |-> 48000]
    /\ lastSound.calls = 1
    /\ lastSound.ok

(***************************************************************************)
(* C14: a negotiation that fails, and a Drop that is handled, stop the     *)
(* supervisor for good: from then on it takes no event from the queue,     *)
(* starts no negotiation, attempts no open and the mixer's format never    *)
(* changes. The format changes only in the supervisor's set_config step    *)
(* of a negotiation, under the lock: no step of sample_rate, channels,     *)
(* new_sound or the data callback changes it.                              *)
(***************************************************************************)
C14_StoppedIsTerminal ==
    /\ [](errors # <<>> => SupState = "Stopped")
    /\ [][ /\ SupState = "Stopped" =>
                /\ SupState' = "Stopped"
                /\ queue' = queue
                /\ negotiations' = negotiations
                /\ attempted' = attempted
                /\ candidates' = candidates
                /\ Len(streams') = Len(streams)
                /\ errors' = errors
                /\ mixerCfg' = mixerCfg
           /\ (supPc = "recv" /\ supPc' = "returned") =>
                \/ errors' # errors /\ negotiations' = negotiations + 1
                \/ queue # <<>> /\ Head(queue) = "Drop" /\ errors' = errors
           /\ mixerCfg' # mixerCfg =>
                /\ supPc = "set"
                /\ supPc' = "open"
                /\ lock = "supervisor"
                /\ mixerCfg' = [channels |-> config.channels, sample_rate |-> config.rate]
                /\ ctl' = ctl
                /\ cb' = cb
                /\ sounds' = sounds
                /\ lastRead' = lastRead ]_vars

C14_Witness_CallsGoOnAfterStop ==
    /\ supPc = "exited"
    /\ errors = <<"no supported config">>
    /\ queue = <<>>
    /\ ctl.st = "holding"
    /\ ctl.op = "new_sound"
    /\ lastRead.op = "channels"
    /\ lastRead.value = mixerCfg.channels
    /\ mixerCfg # [channels |-> 2, sample_rate |-> 48000]

(***************************************************************************)
(* C20: the lock of the mixer is the only lock; it is held by one context  *)
(* at a time, only for the one call on the mixer, and never while the      *)
(* holder waits in recv, in join or for a stream to open; a holder can     *)
(* always finish and release. A context stops waiting for the lock only   *)
(* by getting it, and the join ends only by returning; with threads that   *)
(* are scheduled no context holds the lock for ever, none waits for it     *)
(* for ever, and no join lasts for ever.                                   *)
(***************************************************************************)
C20_Holders ==
    (IF ctl.st = "holding" THEN 1 ELSE 0)
        + (IF supPc = "set" THEN 1 ELSE 0)
        + Cardinality({s \in 1..MaxStreams : cb[s] = "holding"})

====
